---- MODULE Spec2Model ----
(***************************************************************************)
(* A model of bf.py: parse (the lexer/parser that drops non-instruction    *)
(* characters, resolves brackets and collapses runs) and run (the executor *)
(* over a 30000-cell tape), joined by run_bf.                               *)
(*                                                                         *)
(* Conventions.  A program text is a sequence of one-character strings.    *)
(* Indices stored in the data (jump targets, bracket_stack entries, loc,    *)
(* ptr) are Python's 0-based indices; a TLA+ sequence is read at index+1.   *)
(* A character of the input source or the output sink is the record        *)
(* [code |-> its code point].  The tape is kept as the function from the    *)
(* indices of its non-zero cells to their values: each of the other cells   *)
(* of the TAPE_SIZE holds 0.                                                *)
(***************************************************************************)
EXTENDS Integers, Sequences, FiniteSets, TLC

VARIABLES
    pc,             \* "parse" | "run" | "done" | "raised"
    entry,          \* the function called: "parse" | "run_bf" | "run"
    raised,         \* <<>>, or <<the exception that ended the call>>
    prog,           \* parse: the text being parsed
    parse_loc,      \* parse: loc
    tokens,         \* parse: tokens
    bracket_stack,  \* parse: bracket_stack
    ops,            \* run: ops
    stdin,          \* run: stdin
    stdin_iter,     \* run: how many characters stdin_iter has yielded
    stdout,         \* run: the characters written to stdout
    tape,           \* run: tape
    run_loc,        \* run: loc
    ptr,            \* run: ptr
    hist            \* run: <<loc, ptr>> at the start of each iteration made

parse_vars == <<prog, parse_loc, tokens, bracket_stack>>
run_vars   == <<ops, stdin, stdin_iter, stdout, tape, run_loc, ptr, hist>>
vars       == <<pc, entry, raised, prog, parse_loc, tokens, bracket_stack,
                ops, stdin, stdin_iter, stdout, tape, run_loc, ptr, hist>>

----------------------------------------------------------------------------
(* BFToken, CollapsedToken, to_u8                                          *)

None == -1

NoToken == "None"

\* A lookup that falls back on the last member instead of None.
BFTokenGet_LastMember(symbol) ==
    CASE symbol = ">" -> "MoveRight"
      [] symbol = "<" -> "MoveLeft"
      [] symbol = "[" -> "JumpForward"
      [] symbol = "]" -> "JumpBackward"
      [] symbol = "+" -> "Incr"
      [] symbol = "-" -> "Decr"
      [] symbol = "," -> "ReadStdIn"
      [] OTHER        -> "PutStdOut"

BFTokenGet(symbol) ==
    CASE symbol = ">" -> "MoveRight"
      [] symbol = "<" -> "MoveLeft"
      [] symbol = "[" -> "JumpForward"
      [] symbol = "]" -> "JumpBackward"
      [] symbol = "+" -> "Incr"
      [] symbol = "-" -> "Decr"
      [] symbol = "," -> "ReadStdIn"
      [] symbol = "." -> "PutStdOut"
      [] OTHER        -> NoToken

CollapsedToken(t, v) == [token |-> t, value |-> v]

\* The conventional byte modulus.
to_u8_256(value) == value % 256

to_u8(value) == value % 255

TAPE_SIZE == 30000

----------------------------------------------------------------------------
(* parse                                                                   *)

MismatchedBrackets(site, arg) ==
    [type |-> "MismatchedBrackets", site |-> site, arg |-> arg]

\* An if in place of the while: at most one more character is taken.
CountRun_AtMostOne(text, loc, symbol) ==
    IF loc < Len(text) /\ symbol = text[loc + 1] THEN 1 ELSE 0

\* The inner while loop of lines 73-76: how many characters from 0-based
\* position loc on are equal to symbol.
RECURSIVE CountRun(_, _, _)
CountRun(text, loc, symbol) ==
    IF loc < Len(text) /\ symbol = text[loc + 1]
    THEN 1 + CountRun(text, loc + 1, symbol)
    ELSE 0

\* The count started at 0 instead of 1.
RunLength_FromZero(text, loc, symbol) == CountRun(text, loc, symbol)

\* Lines 73-78: count, the value of the token appended for the run.
RunLength(text, loc, symbol) == 1 + CountRun(text, loc, symbol)

\* The opener patched with the index of the last token, not of the closer.
ResolveClose_LastToken(toks, open_idx) ==
    Append([toks EXCEPT ![open_idx + 1].value = Len(toks) - 1],
           CollapsedToken("JumpBackward", open_idx))

\* Lines 64-66: patch the opener with the closer's index, append the closer.
ResolveClose(toks, open_idx) ==
    Append([toks EXCEPT ![open_idx + 1].value = Len(toks)],
           CollapsedToken("JumpBackward", open_idx))

\* The test of the value turned round.
NotEmptyJumpForward_IsNone(opened) ==
    opened.token # "JumpForward" \/ opened.value = None

\* Line 61: the popped entry is not an unresolved JumpForward.
NotEmptyJumpForward(opened) ==
    opened.token # "JumpForward" \/ opened.value # None

\* One open bracket let through.
UnclosedAtEnd_MoreThanOne(stack) == Len(stack) > 1

\* The check after the scan left out.
UnclosedAtEnd_Never(stack) == FALSE

\* Line 80: the guard of the raise that follows the scan.
UnclosedAtEnd(stack) == stack # <<>>

\* One iteration of the while loop of lines 46-78.
ParseStep ==
    /\ pc = "parse"
    /\ parse_loc < Len(prog)
    /\ LET symbol == prog[parse_loc + 1]
           op     == BFTokenGet(symbol)
           loc1   == parse_loc + 1
       IN  CASE op = NoToken ->
                  /\ parse_loc' = loc1
                  /\ UNCHANGED <<tokens, bracket_stack, pc, raised>>
             [] op = "JumpBackward" ->
                  IF bracket_stack = <<>>
                  THEN /\ pc' = "raised"
                       /\ raised' = <<MismatchedBrackets("unmatched_close", loc1)>>
                       /\ parse_loc' = loc1
                       /\ UNCHANGED <<tokens, bracket_stack>>
                  ELSE LET open_idx == bracket_stack[Len(bracket_stack)]
                           opened   == tokens[open_idx + 1]
                       IN  /\ parse_loc' = loc1
                           /\ bracket_stack' = SubSeq(bracket_stack, 1, Len(bracket_stack) - 1)
                           /\ IF NotEmptyJumpForward(opened)
                              THEN /\ pc' = "raised"
                                   /\ raised' = <<MismatchedBrackets("not_empty_jump_forward", open_idx)>>
                                   /\ UNCHANGED tokens
                              ELSE /\ tokens' = ResolveClose(tokens, open_idx)
                                   /\ UNCHANGED <<pc, raised>>
             [] op = "JumpForward" ->
                  /\ parse_loc' = loc1
                  /\ bracket_stack' = Append(bracket_stack, Len(tokens))
                  /\ tokens' = Append(tokens, CollapsedToken(op, None))
                  /\ UNCHANGED <<pc, raised>>
             [] OTHER ->
                  /\ parse_loc' = loc1 + CountRun(prog, loc1, symbol)
                  /\ tokens' = Append(tokens, CollapsedToken(op, RunLength(prog, loc1, symbol)))
                  /\ UNCHANGED <<bracket_stack, pc, raised>>
    /\ UNCHANGED <<entry, prog>>
    /\ UNCHANGED run_vars

----------------------------------------------------------------------------
(* run                                                                     *)

\* chr and ord: a character is the record of its code point; chr is
\* defined on 0..0x10FFFF and raises ValueError elsewhere.
Chr(i) == [code |-> i]

Ord(c) == c.code

ChrDefined(i) == i \in 0..1114111

\* tape = [0] * TAPE_SIZE
ZeroTape == [i \in {} |-> 0]

\* A Python list of TAPE_SIZE items is indexed by -TAPE_SIZE..TAPE_SIZE-1,
\* a negative index counting from the end; any other index is an IndexError.
ListIndexOk(i) == -TAPE_SIZE <= i /\ i < TAPE_SIZE

ListIndex(i) == IF i < 0 THEN i + TAPE_SIZE ELSE i

TapeGet(t, i) == IF ListIndex(i) \in DOMAIN t THEN t[ListIndex(i)] ELSE 0

\* The store landing on the cell after the one asked for.
TapeSet_NextCell(t, i, v) ==
    IF v = 0
    THEN [j \in DOMAIN t \ {ListIndex(i) + 1} |-> t[j]]
    ELSE [j \in DOMAIN t \cup {ListIndex(i) + 1} |-> IF j = ListIndex(i) + 1 THEN v ELSE t[j]]

TapeSet(t, i, v) ==
    IF v = 0
    THEN [j \in DOMAIN t \ {ListIndex(i)} |-> t[j]]
    ELSE [j \in DOMAIN t \cup {ListIndex(i)} |-> IF j = ListIndex(i) THEN v ELSE t[j]]

\* One tape length taken off instead of the remainder.
MoveRight_OneTurn(p, value) ==
    LET move_to == value + p
    IN  IF move_to > TAPE_SIZE - 1 THEN move_to - TAPE_SIZE ELSE move_to

\* Lines 100-103.
MoveRight(p, value) ==
    LET move_to == value + p
    IN  IF move_to > TAPE_SIZE - 1 THEN move_to % TAPE_SIZE ELSE move_to

\* The wraparound below 0 left out.
MoveLeft_NoWrap(p, value) == p - value

\* Lines 106-109.
MoveLeft(p, value) ==
    LET move_to == p - value
    IN  IF move_to < 0 THEN move_to % TAPE_SIZE ELSE move_to

\* The run length ignored.
Incr_ByOne(cell, value) == to_u8(cell + 1)

\* Line 112.
Incr(cell, value) == to_u8(cell + value)

\* The run length ignored.
Decr_ByOne(cell, value) == to_u8(cell - 1)

\* Line 115.
Decr(cell, value) == to_u8(cell - value)

\* The digit '0' as the default instead of the null character.
NextChar_Digit0(input, pos) == IF pos < Len(input) THEN input[pos + 1] ELSE [code |-> 48]

\* next(stdin_iter, '\0'): the character yielded, and the iterator after it.
NextChar(input, pos) == IF pos < Len(input) THEN input[pos + 1] ELSE Chr(0)

NextPos(input, pos) == IF pos < Len(input) THEN pos + 1 ELSE pos

\* The code read reduced like a cell.
ReadCell_u8(input, pos) == to_u8(NextChar(input, pos).code)

\* Line 119: the value one read stores in the current cell.
ReadCell(input, pos) == Ord(NextChar(input, pos))

\* Lines 118-119: n reads, each overwriting the current cell.
RECURSIVE ReadStdIn(_, _, _, _, _)
ReadStdIn(t, p, input, pos, n) ==
    IF n <= 0
    THEN [tape |-> t, pos |-> pos]
    ELSE ReadStdIn(TapeSet(t, p, ReadCell(input, pos)), p, input,
                   NextPos(input, pos), n - 1)

\* Line 123: the character one write appends.
WriteChar(cell) == Chr(cell)

\* Lines 122-123: n writes of the current cell's character.
RECURSIVE PutStdOut(_, _, _)
PutStdOut(out, cell, n) ==
    IF n <= 0 THEN out ELSE PutStdOut(Append(out, WriteChar(cell)), cell, n - 1)

\* Lines 125-127: loc after a JumpForward, before the loc += 1 of line 133.
JumpForward(loc, op, cell) == IF cell = 0 THEN op.value ELSE loc

\* The jump aimed one before the opener, which is then executed again.
JumpBackward_OntoOpener(loc, op, cell) == IF cell # 0 THEN op.value - 1 ELSE loc

\* Lines 129-131: loc after a JumpBackward, before the loc += 1 of line 133.
JumpBackward(loc, op, cell) == IF cell # 0 THEN op.value ELSE loc

\* The exception one iteration raises on op, "" when it raises none: a None
\* value used as a number, a tape index outside the list, a chr outside
\* its domain.
RunFault(op, p, t) ==
    CASE op.token \in {"MoveRight", "MoveLeft"} ->
           IF op.value = None THEN "TypeError" ELSE ""
      [] op.token \in {"Incr", "Decr"} ->
           IF ~ListIndexOk(p) THEN "IndexError"
           ELSE IF op.value = None THEN "TypeError" ELSE ""
      [] op.token = "ReadStdIn" ->
           IF op.value = None THEN "TypeError"
           ELSE IF op.value >= 1 /\ ~ListIndexOk(p) THEN "IndexError" ELSE ""
      [] op.token = "PutStdOut" ->
           IF op.value = None THEN "TypeError"
           ELSE IF op.value >= 1 /\ ~ListIndexOk(p) THEN "IndexError"
           ELSE IF op.value >= 1 /\ ~ChrDefined(TapeGet(t, p)) THEN "ValueError"
           ELSE ""
      [] op.token = "JumpForward" ->
           IF ~ListIndexOk(p) THEN "IndexError"
           ELSE IF TapeGet(t, p) = 0 /\ op.value = None THEN "TypeError" ELSE ""
      [] op.token = "JumpBackward" ->
           IF ~ListIndexOk(p) THEN "IndexError"
           ELSE IF TapeGet(t, p) # 0 /\ op.value = None THEN "TypeError" ELSE ""
      [] OTHER -> ""

\* One iteration of the while loop of lines 96-133.
RunStep ==
    /\ pc = "run"
    /\ run_loc < Len(ops)
    /\ hist' = Append(hist, <<run_loc, ptr>>)
    /\ LET op    == ops[run_loc + 1]
           fault == RunFault(op, ptr, tape)
           cell  == TapeGet(tape, ptr)
           read  == ReadStdIn(tape, ptr, stdin, stdin_iter, op.value)
       IN  IF fault # ""
           THEN /\ pc' = "raised"
                /\ raised' = <<[type |-> fault, site |-> "run", arg |-> run_loc]>>
                /\ UNCHANGED <<stdin_iter, stdout, tape, run_loc, ptr>>
           ELSE /\ ptr' = CASE op.token = "MoveRight" -> MoveRight(ptr, op.value)
                            [] op.token = "MoveLeft"  -> MoveLeft(ptr, op.value)
                            [] OTHER -> ptr
                /\ tape' = CASE op.token = "Incr" -> TapeSet(tape, ptr, Incr(cell, op.value))
                             [] op.token = "Decr" -> TapeSet(tape, ptr, Decr(cell, op.value))
                             [] op.token = "ReadStdIn" -> read.tape
                             [] OTHER -> tape
                /\ stdin_iter' = IF op.token = "ReadStdIn" THEN read.pos ELSE stdin_iter
                /\ stdout' = IF op.token = "PutStdOut"
                             THEN PutStdOut(stdout, cell, op.value)
                             ELSE stdout
                /\ run_loc' = 1 + (CASE op.token = "JumpForward"  -> JumpForward(run_loc, op, cell)
                                     [] op.token = "JumpBackward" -> JumpBackward(run_loc, op, cell)
                                     [] OTHER -> run_loc)
                /\ UNCHANGED <<pc, raised>>
    /\ UNCHANGED <<entry, ops, stdin>>
    /\ UNCHANGED parse_vars

\* The loop left one instruction early: while loc < prog_length - 1.
RunEnd_OneEarly ==
    /\ pc = "run"
    /\ run_loc >= Len(ops) - 1
    /\ pc' = "done"
    /\ UNCHANGED <<entry, raised, ops, stdin, stdin_iter, stdout, tape, run_loc, ptr, hist>>
    /\ UNCHANGED parse_vars

\* Line 96 false: the loop ends and run returns.
RunEnd ==
    /\ pc = "run"
    /\ run_loc >= Len(ops)
    /\ pc' = "done"
    /\ UNCHANGED <<entry, raised, ops, stdin, stdin_iter, stdout, tape, run_loc, ptr, hist>>
    /\ UNCHANGED parse_vars

----------------------------------------------------------------------------
(* run_bf                                                                  *)

\* prog.split('\n'): the pieces of text between its newlines, in order.
Split(text) ==
    LET seps   == {k \in 1..Len(text) : text[k] = "\n"}
        \* The position of the i-th newline; 0 before the first piece and
        \* Len(text) + 1 after the last.
        Sep(i) == IF i = 0 THEN 0
                  ELSE IF i > Cardinality(seps) THEN Len(text) + 1
                  ELSE CHOOSE k \in seps : Cardinality({m \in seps : m < k}) = i - 1
    IN  [i \in 1..(Cardinality(seps) + 1) |-> SubSeq(text, Sep(i - 1) + 1, Sep(i) - 1)]

\* "".join(pieces)
RECURSIVE Join(_)
Join(pieces) == IF pieces = <<>> THEN <<>> ELSE Head(pieces) \o Join(Tail(pieces))

bf_to_one_line(text) == Join(Split(text))

\* Lines 80-83, the end of the scan: raise on an open bracket, else return
\* tokens.  Under run_bf (line 141) the value returned is run's ops, and run
\* begins with the assignments of lines 90-94.
ParseEnd ==
    /\ pc = "parse"
    /\ parse_loc >= Len(prog)
    /\ IF UnclosedAtEnd(bracket_stack)
       THEN /\ pc' = "raised"
            /\ raised' = <<MismatchedBrackets("unclosed_open",
                                              bracket_stack[Len(bracket_stack)])>>
            /\ bracket_stack' = SubSeq(bracket_stack, 1, Len(bracket_stack) - 1)
            /\ UNCHANGED <<ops, stdin_iter, tape, run_loc, ptr>>
       ELSE IF entry = "parse"
       THEN /\ pc' = "done"
            /\ UNCHANGED <<raised, bracket_stack, ops, stdin_iter, tape, run_loc, ptr>>
       ELSE /\ pc' = "run"
            /\ ops' = tokens
            /\ tape' = ZeroTape
            /\ run_loc' = 0
            /\ ptr' = 0
            /\ stdin_iter' = 0
            /\ UNCHANGED <<raised, bracket_stack>>
    /\ UNCHANGED <<entry, prog, parse_loc, tokens, stdin, stdout, hist>>

----------------------------------------------------------------------------
(* The calls checked.                                                      *)

SeqsUpTo(S, n) == UNION {[1..k -> S] : k \in 0..n}

\* The state at the call of function e on text p, ops o and input source i.
Call(e, p, o, i) ==
    /\ entry = e
    /\ pc = IF e = "run" THEN "run" ELSE "parse"
    /\ raised = <<>>
    /\ prog = p
    /\ parse_loc = 0
    /\ tokens = <<>>
    /\ bracket_stack = <<>>
    /\ ops = o
    /\ stdin = i
    /\ stdin_iter = 0
    /\ stdout = <<>>
    /\ tape = ZeroTape
    /\ run_loc = 0
    /\ ptr = 0
    /\ hist = <<>>

Symbols == {">", "<", "[", "]", "+", "-", ",", "."}

\* run_bf(text, stdout, stdin) on every short text and a few input sources.
MaxProgLen == 4

MaxSteps == 12

Alphabet == Symbols \cup {"x", "\n"}

Inputs == {<<>>, <<Chr(65)>>, <<Chr(8364), Chr(66)>>}

Init ==
    \E text \in SeqsUpTo(Alphabet, MaxProgLen), i \in Inputs :
        Call("run_bf", bf_to_one_line(text), <<>>, i)

BoundedRunStep == Len(hist) < MaxSteps /\ RunStep

Next == ParseStep \/ ParseEnd \/ BoundedRunStep \/ RunEnd

Spec == Init /\ [][Next]_vars

\* run_bf on every text of up to MaxFairLen characters, where the interpreter
\* goes on as long as it has a step to take: a call that has started takes
\* its next step.
MaxFairLen == 3

InitFair ==
    \E text \in SeqsUpTo(Alphabet, MaxFairLen), i \in Inputs :
        Call("run_bf", bf_to_one_line(text), <<>>, i)

SpecFair == InitFair /\ [][Next]_vars /\ WF_vars(Next)

\* parse(text) on every text of up to MaxParseLen characters of ParseAlphabet.
MaxParseLen == 6

ParseAlphabet == {"[", "]", "+", ">", "x", "\n"}

InitParse ==
    \E text \in SeqsUpTo(ParseAlphabet, MaxParseLen) :
        Call("parse", text, <<>>, <<>>)

NextParse == ParseStep \/ ParseEnd

SpecParse == InitParse /\ [][NextParse]_vars

\* run(o, "", stdout) on every sequence of up to MaxOps move, increment and
\* decrement instructions whose run lengths are the ones below.
MaxOps == 3

MoveValues == {1, 15000, 29999, 30000, 60000}

CellValues == {1, 254, 255, 256}

RunTokens ==
    {CollapsedToken(t, v) : t \in {"MoveRight", "MoveLeft"}, v \in MoveValues}
    \cup {CollapsedToken(t, v) : t \in {"Incr", "Decr"}, v \in CellValues}

InitRun ==
    \E o \in SeqsUpTo(RunTokens, MaxOps) : Call("run", <<>>, o, <<>>)

NextRun == RunStep \/ RunEnd

SpecRun == InitRun /\ [][NextRun]_vars

\* run_bf(HelloText, stdout) with no input.
HelloText ==
    <<"+","+","+","+","+","+","+","+","[",">","+","+","+","+","[",">","+","+",
      ">","+","+","+",">","+","+","+",">","+","<","<","<","<","-","]",">","+",
      ">","+",">","-",">",">","+","[","<","]","<","-","]",">",">",".",">","-",
      "-","-",".","+","+","+","+","+","+","+",".",".","+","+","+",".",">",">",
      ".","<","-",".","<",".","+","+","+",".","-","-","-","-","-","-",".","-",
      "-","-","-","-","-","-","-",".",">",">","+",".",">","+","+",".">>

MaxHelloSteps == 600

InitHello == Call("run_bf", bf_to_one_line(HelloText), <<>>, <<>>)

HelloRunStep == Len(hist) < MaxHelloSteps /\ RunStep

NextHello == ParseStep \/ ParseEnd \/ HelloRunStep \/ RunEnd

\* The interpreter is a sequential program that keeps executing.
SpecHello == InitHello /\ [][NextHello]_vars /\ WF_vars(NextHello)

----------------------------------------------------------------------------
(* Bracket structure, stated on nesting depth alone.                       *)

\* The depth after the first k items of a sequence of +1 (an opener), -1 (a
\* closer) and 0 (anything else).
RECURSIVE DepthAfter(_, _)
DepthAfter(d, k) == IF k = 0 THEN 0 ELSE DepthAfter(d, k - 1) + d[k]

BalancedDepths(d) ==
    /\ \A k \in 1..Len(d) : DepthAfter(d, k) >= 0
    /\ DepthAfter(d, Len(d)) = 0

\* j is the closer that matches the opener at i (positions from 1).
Matches(d, i, j) ==
    /\ i < j
    /\ d[i] = 1
    /\ d[j] = -1
    /\ DepthAfter(d, j) = DepthAfter(d, i - 1)
    /\ \A k \in i..(j - 1) : DepthAfter(d, k) > DepthAfter(d, i - 1)

TextDepths(text) ==
    [k \in 1..Len(text) |->
        IF text[k] = "[" THEN 1 ELSE IF text[k] = "]" THEN -1 ELSE 0]

TokenDepths(toks) ==
    [k \in 1..Len(toks) |->
        IF toks[k].token = "JumpForward" THEN 1
        ELSE IF toks[k].token = "JumpBackward" THEN -1 ELSE 0]

ParseReturned == entry = "parse" /\ pc = "done"

ParseRaised == entry = "parse" /\ pc = "raised"

\* C1: in the sequence parse returns, the JumpForward/JumpBackward
\* instructions are balanced and properly nested, every JumpForward at index
\* i holds the index j > i of the JumpBackward that matches it, and that
\* JumpBackward holds i; no target is left unresolved.
C1_BracketsMatched ==
    ParseReturned =>
        LET d == TokenDepths(tokens)
        IN  /\ BalancedDepths(d)
            /\ \A i \in 1..Len(tokens) :
                 /\ tokens[i].token = "JumpForward" =>
                      /\ tokens[i].value # None
                      /\ tokens[i].value + 1 \in (i + 1)..Len(tokens)
                      /\ Matches(d, i, tokens[i].value + 1)
                      /\ tokens[tokens[i].value + 1].value = i - 1
                 /\ tokens[i].token = "JumpBackward" =>
                      /\ tokens[i].value + 1 \in 1..(i - 1)
                      /\ Matches(d, tokens[i].value + 1, i)
                      /\ tokens[tokens[i].value + 1].value = i - 1

\* parse has returned a sequence with a loop that holds two loops.
C1_Witness ==
    /\ ParseReturned
    /\ Len(tokens) = 6
    /\ \A i \in 1..6 : tokens[i].token \in {"JumpForward", "JumpBackward"}
    /\ tokens[1].value = 5
    /\ tokens[2].value = 2
    /\ tokens[4].value = 4

SymbolOf(token) == CHOOSE c \in Symbols : BFTokenGet(c) = token

\* The text with every non-instruction character removed.
InstructionSymbols(text) == SelectSeq(text, LAMBDA c : c \in Symbols)

IsBracket(token) == token \in {"JumpForward", "JumpBackward"}

\* Each (kind, n) as n copies of its symbol, each bracket as one symbol.
RECURSIVE Decollapse(_)
Decollapse(toks) ==
    IF toks = <<>> THEN <<>>
    ELSE LET t == Head(toks)
             n == IF IsBracket(t.token) THEN 1 ELSE t.value
         IN  [k \in 1..n |-> SymbolOf(t.token)] \o Decollapse(Tail(toks))

\* C2: expanding the sequence parse returns gives the text without its
\* non-instruction characters; every non-bracket value is at least 1 and
\* there is one instruction for each bracket symbol.
C2_DecollapseIsInput ==
    ParseReturned =>
        /\ \A i \in 1..Len(tokens) :
             ~IsBracket(tokens[i].token) => tokens[i].value >= 1
        /\ Decollapse(tokens) = InstructionSymbols(prog)
        /\ Cardinality({i \in 1..Len(tokens) : IsBracket(tokens[i].token)})
             = Cardinality({k \in 1..Len(prog) : prog[k] \in {"[", "]"}})

\* parse has returned for a text with ignored characters, a collapsed run,
\* and two runs of one symbol that an ignored character keeps apart.
C2_Witness ==
    /\ ParseReturned
    /\ Len(InstructionSymbols(prog)) < Len(prog)
    /\ \E i \in 1..Len(tokens) : ~IsBracket(tokens[i].token) /\ tokens[i].value >= 2
    /\ \E i \in 1..(Len(tokens) - 1) :
         ~IsBracket(tokens[i].token) /\ tokens[i].token = tokens[i + 1].token

\* C3: parse raises MismatchedBrackets exactly on the texts whose brackets
\* do not balance, and returns on every balanced one; "[]" gives two
\* instructions that point at each other.
C3_RaisesIffUnbalanced ==
    /\ ParseReturned => BalancedDepths(TextDepths(prog))
    /\ ParseRaised =>
         /\ ~BalancedDepths(TextDepths(prog))
         /\ raised[1].type = "MismatchedBrackets"
    /\ (ParseReturned /\ prog = <<"[", "]">>) =>
         tokens = <<CollapsedToken("JumpForward", 1), CollapsedToken("JumpBackward", 0)>>
    /\ prog \in {<<"]">>, <<"[">>, <<"[", "[", "]">>} => ~ParseReturned

\* parse has raised on "[[]", whose first opener is never closed.
C3_Witness ==
    /\ ParseRaised
    /\ prog = <<"[", "[", "]">>
    /\ raised[1].type = "MismatchedBrackets"

----------------------------------------------------------------------------
(* The executor.                                                           *)

\* This step is one iteration of run's loop.
Iteration == pc = "run" /\ hist' # hist

\* The instruction that iteration executes.
CurrentOp == ops[run_loc + 1]

\* The last iteration made: where it started, and its instruction.
LastLoc == hist[Len(hist)][1]

LastOp == ops[LastLoc + 1]

Running == pc \in {"run", "done"}

\* Where the iteration must leave loc: past the matching JumpBackward for a
\* JumpForward on a zero cell, past the matching JumpForward for a
\* JumpBackward on a non-zero cell, one further in every other case.  The
\* match is the one nesting depth gives, whatever the value fields hold.
C4_NextLoc ==
    LET d    == TokenDepths(ops)
        i    == run_loc + 1
        cell == TapeGet(tape, ptr)
    IN  IF CurrentOp.token = "JumpForward" /\ cell = 0
        THEN CHOOSE j \in 1..Len(ops) : Matches(d, i, j)
        ELSE IF CurrentOp.token = "JumpBackward" /\ cell # 0
        THEN CHOOSE k \in 1..Len(ops) : Matches(d, k, i)
        ELSE run_loc + 1

\* C4: a JumpForward on a zero cell continues right after its matching
\* JumpBackward, a JumpBackward on a non-zero cell right after its matching
\* JumpForward; every other iteration advances loc by exactly 1.
C4_JumpLandsAfterMatch ==
    [][(Iteration /\ pc' = "run") => run_loc' = C4_NextLoc]_vars

\* A JumpForward on a zero cell has just skipped a body that holds a loop.
C4_Witness ==
    /\ Running
    /\ Len(hist) >= 1
    /\ LastOp.token = "JumpForward"
    /\ ops[LastLoc + 2].token = "JumpForward"
    /\ run_loc >= LastLoc + 4
    /\ ops[run_loc].token = "JumpBackward"
    /\ ops[run_loc].value = LastLoc

CellsInRange == \A i \in DOMAIN tape : tape[i] \in 0..254

\* C5: after any increments and decrements of a zeroed tape every cell is in
\* 0..254, and an increment by 255 leaves the tape as it was.
C5_CellArithmetic ==
    /\ [](entry = "run" => CellsInRange)
    /\ [][(Iteration /\ CurrentOp = CollapsedToken("Incr", 255)) => tape' = tape]_vars

\* An increment by 255 has just been made on a cell that a decrement had
\* wrapped upward to 254.
C5_Witness ==
    /\ Running
    /\ Len(hist) >= 2
    /\ LastOp = CollapsedToken("Incr", 255)
    /\ ops[LastLoc].token = "Decr"
    /\ TapeGet(tape, ptr) = 254

\* The instruction of the k-th iteration made, and the data pointer when it
\* started (after the last one: the pointer now).
OpAt(k) == ops[hist[k][1] + 1]

PtrAt(k) == IF k <= Len(hist) THEN hist[k][2] ELSE ptr

RECURSIVE SumValues(_, _)
SumValues(i, j) == IF i >= j THEN 0 ELSE OpAt(i).value + SumValues(i + 1, j)

\* Iterations i..j-1 are all moves in direction token and their run lengths
\* sum to a multiple of the tape length.
FullTurns(token, i, j) ==
    /\ i < j
    /\ \A k \in i..(j - 1) : OpAt(k).token = token
    /\ SumValues(i, j) % TAPE_SIZE = 0

\* C6: move-right instructions, or move-left instructions, whose run lengths
\* sum to a multiple of 30000 bring the data pointer back to where it was;
\* the pointer stays in 0..29999 and no move faults.
C6_WrapReturns ==
    entry = "run" =>
        /\ pc # "raised"
        /\ ptr \in 0..(TAPE_SIZE - 1)
        /\ \A i \in 1..Len(hist), j \in 2..(Len(hist) + 1) :
             (FullTurns("MoveRight", i, j) \/ FullTurns("MoveLeft", i, j))
                 => PtrAt(j) = PtrAt(i)

\* From a position other than 0, two move-left instructions that sum to a
\* multiple of the tape length have wrapped below 0 and come back.
C6_Witness ==
    /\ entry = "run"
    /\ Running
    /\ \E i \in 1..(Len(hist) - 1) :
         /\ FullTurns("MoveLeft", i, i + 2)
         /\ PtrAt(i) # 0
         /\ PtrAt(i + 1) > PtrAt(i)
         /\ PtrAt(i + 2) = PtrAt(i)

\* A read-input of value n yields the next n characters of the input source
\* as far as it has them; the cell ends with the code of the last one, or 0
\* when the source ran out before it.
C7_ReadStep ==
    (Iteration /\ CurrentOp.token = "ReadStdIn") =>
        LET n == CurrentOp.value
        IN  /\ pc' = "run"
            /\ n >= 1
            /\ stdin_iter' = IF stdin_iter + n > Len(stdin) THEN Len(stdin)
                             ELSE stdin_iter + n
            /\ TapeGet(tape', ptr) = IF stdin_iter + n > Len(stdin) THEN 0
                                     ELSE stdin[stdin_iter + n].code

\* C7: a read-input of value n makes n reads; a read of an exhausted input
\* source stores 0 and is no fault; "," with empty input ends with cell 0
\* equal to 0 and no output.
C7_ExhaustedInputReadsZero ==
    /\ []((prog = <<",">> /\ stdin = <<>>) =>
            /\ pc # "raised"
            /\ pc = "done" => (TapeGet(tape, 0) = 0 /\ stdout = <<>> /\ Len(hist) = 1))
    /\ [][C7_ReadStep]_vars

\* A read-input of value 2 or more has used up a non-empty input source that
\* holds no null character, and left 0 in the cell.
C7_Witness ==
    /\ Running
    /\ Len(hist) >= 1
    /\ LastOp.token = "ReadStdIn"
    /\ LastOp.value >= 2
    /\ stdin # <<>>
    /\ \A k \in 1..Len(stdin) : stdin[k].code # 0
    /\ stdin_iter = Len(stdin)
    /\ TapeGet(tape, ptr) = 0

\* A write-output of value n appends n copies of the character whose code is
\* the current cell, and leaves the tape alone.
C8_WriteStep ==
    (Iteration /\ CurrentOp.token = "PutStdOut") =>
        /\ pc' = "run"
        /\ stdout' = stdout \o [k \in 1..CurrentOp.value |-> [code |-> TapeGet(tape, ptr)]]
        /\ tape' = tape

\* C8: ",." writes exactly the first character of its input, whatever that
\* character is; a write-output of value n appends n copies of the current
\* cell's character and does not change the cell.
C8_WriteInvertsRead ==
    /\ []((prog = <<",", ".">> /\ stdin # <<>> /\ pc = "done") => stdout = <<stdin[1]>>)
    /\ [][C8_WriteStep]_vars

\* ",." has ended on an input whose first character has a code above 255,
\* with that character as its whole output.
C8_Witness ==
    /\ prog = <<",", ".">>
    /\ pc = "done"
    /\ stdin # <<>>
    /\ stdin[1].code > 255
    /\ stdout = <<stdin[1]>>

HelloWorld ==
    [k \in 1..13 |-> [code |-> <<72, 101, 108, 108, 111, 32, 87, 111, 114, 108, 100, 33, 10>>[k]]]

\* C9: the Hello World program, with no input, ends, and the output is then
\* "Hello World!" and a newline.
C9_HelloWorld ==
    /\ [](prog = HelloText =>
            /\ pc # "raised"
            /\ pc = "done" => stdout = HelloWorld)
    /\ <>(prog = HelloText /\ pc = "done")

\* The program has ended, after 582 iterations, with that output.
C9_Witness ==
    /\ prog = HelloText
    /\ pc = "done"
    /\ Len(hist) = 582
    /\ Len(stdout) = 13
    /\ stdout[13].code = 10

\* C10: run on a parsed program reaches no fault: loc stays in 0..len(ops),
\* ptr in 0..29999, a jump's value is a resolved index of ops, a run length
\* is a count, the tape index and the character of the cell are defined,
\* and nothing but a bracket mismatch of parse is ever raised.
C10_RunNeverFaults ==
    entry = "run_bf" =>
        /\ pc = "raised" => raised[1].type = "MismatchedBrackets" /\ hist = <<>>
        /\ Running =>
             /\ run_loc \in 0..Len(ops)
             /\ ptr \in 0..(TAPE_SIZE - 1)
             /\ ListIndexOk(ptr)
             /\ ChrDefined(TapeGet(tape, ptr))
             /\ \A k \in 1..Len(ops) :
                  IF IsBracket(ops[k].token)
                  THEN ops[k].value # None /\ ops[k].value \in 0..(Len(ops) - 1)
                  ELSE ops[k].value >= 1
             /\ pc = "run" /\ run_loc < Len(ops) => RunFault(CurrentOp, ptr, tape) = ""

\* run is about to take a JumpBackward with the data pointer wrapped to the
\* last cell of the tape.
C10_Witness ==
    /\ entry = "run_bf"
    /\ pc = "run"
    /\ run_loc < Len(ops)
    /\ CurrentOp.token = "JumpBackward"
    /\ ptr = TAPE_SIZE - 1
    /\ TapeGet(tape, ptr) # 0

----------------------------------------------------------------------------
(* run_bf on a text that does not parse.                                   *)

\* C11: when the brackets of the text given to run_bf do not balance, the
\* MismatchedBrackets of parse is raised before run makes an iteration:
\* nothing is written to the output sink and nothing is taken from the
\* input source, whatever precedes the offending bracket.
C11_ParseFaultBeforeRun ==
    (entry = "run_bf" /\ ~BalancedDepths(TextDepths(prog))) =>
        /\ pc \in {"parse", "raised"}
        /\ pc = "raised" => raised[1].type = "MismatchedBrackets"
        /\ hist = <<>>
        /\ stdout = <<>>
        /\ stdin_iter = 0
        /\ tape = ZeroTape

\* run_bf has raised on a text that reads and writes before a closer with no
\* opener, with input at hand.
C11_Witness ==
    /\ entry = "run_bf"
    /\ pc = "raised"
    /\ prog = <<",", ".", "]">>
    /\ stdin # <<>>
    /\ stdout = <<>>
    /\ stdin_iter = 0

----------------------------------------------------------------------------
(* What the exception of parse carries.                                    *)

\* The 0-based indices of the JumpForward tokens still unresolved.
UnresolvedOpeners ==
    {i - 1 : i \in {k \in 1..Len(tokens) :
                      tokens[k].token = "JumpForward" /\ tokens[k].value = None}}

Least(S) == CHOOSE x \in S : \A y \in S : x <= y

\* C12: when the scan ends with openers still open, the MismatchedBrackets
\* raised carries the index of the outermost one: the lowest index of a
\* JumpForward that was never closed.
C12_RaiseNamesOutermostOpener ==
    (ParseRaised /\ raised[1].site = "unclosed_open") =>
        raised[1].arg = Least(UnresolvedOpeners)

\* C13: the MismatchedBrackets raised on a closer with no opener carries the
\* character offset k of that closer: prog[k] is the offending "]".
C13_RaiseCarriesCloserOffset ==
    (ParseRaised /\ raised[1].site = "unmatched_close") =>
        LET d == TextDepths(prog)
            \* the first position (from 1) at which the depth goes below 0
            at == CHOOSE k \in 1..Len(prog) :
                     DepthAfter(d, k) < 0 /\ \A m \in 1..(k - 1) : DepthAfter(d, m) >= 0
        IN  raised[1].arg = at - 1

----------------------------------------------------------------------------
(* The empty program.                                                      *)

\* C14: a text with no instruction symbol parses to the empty sequence, and
\* run on the empty sequence ends at once: no iteration, no output, no
\* input taken.
C14_EmptyProgramIsNoOp ==
    (entry = "run_bf" /\ InstructionSymbols(prog) = <<>>) =>
        /\ pc # "raised"
        /\ tokens = <<>>
        /\ bracket_stack = <<>>
        /\ Running => (ops = <<>> /\ run_loc = 0)
        /\ hist = <<>>
        /\ stdout = <<>>
        /\ stdin_iter = 0
        /\ tape = ZeroTape

\* run_bf has ended on a text of ignored characters only, with input at hand.
C14_Witness ==
    /\ entry = "run_bf"
    /\ pc = "done"
    /\ Len(prog) >= 2
    /\ InstructionSymbols(prog) = <<>>
    /\ stdin # <<>>
    /\ ops = <<>>
    /\ hist = <<>>

----------------------------------------------------------------------------
(* Collapsed instructions against their one-symbol expansion.              *)

\* What one iteration on the instruction (token, 1) makes of the executor
\* state s = [ptr, tape, pos, out].
UnitStep(token, s) ==
    LET cell == TapeGet(s.tape, s.ptr)
        read == ReadStdIn(s.tape, s.ptr, stdin, s.pos, 1)
    IN  CASE token = "MoveRight" -> [s EXCEPT !.ptr = MoveRight(s.ptr, 1)]
          [] token = "MoveLeft"  -> [s EXCEPT !.ptr = MoveLeft(s.ptr, 1)]
          [] token = "Incr"      -> [s EXCEPT !.tape = TapeSet(s.tape, s.ptr, Incr(cell, 1))]
          [] token = "Decr"      -> [s EXCEPT !.tape = TapeSet(s.tape, s.ptr, Decr(cell, 1))]
          [] token = "ReadStdIn" -> [s EXCEPT !.tape = read.tape, !.pos = read.pos]
          [] token = "PutStdOut" -> [s EXCEPT !.out = PutStdOut(s.out, cell, 1)]
          [] OTHER -> s

RECURSIVE UnitSteps(_, _, _)
UnitSteps(token, s, n) ==
    IF n <= 0 THEN s ELSE UnitSteps(token, UnitStep(token, s), n - 1)

ExecState(p, t, i, o) == [ptr |-> p, tape |-> t, pos |-> i, out |-> o]

\* C15: an iteration on a collapsed instruction (kind, n) leaves the data
\* pointer, the tape, the input cursor and the output as n iterations on
\* (kind, 1) leave them; a bracket is not collapsed, so the collapsed
\* sequence and its one-instruction-per-symbol expansion run alike.
C15_CollapsedEqualsUnitSteps ==
    [][(Iteration /\ pc' = "run" /\ ~IsBracket(CurrentOp.token)) =>
          ExecState(ptr', tape', stdin_iter', stdout')
              = UnitSteps(CurrentOp.token,
                          ExecState(ptr, tape, stdin_iter, stdout),
                          CurrentOp.value)]_vars

\* A read-input of value 2 or more has just taken two characters, the
\* second into a cell that already held the first.
C15_Witness ==
    /\ Running
    /\ Len(hist) >= 1
    /\ LastOp.token = "ReadStdIn"
    /\ LastOp.value >= 2
    /\ Len(stdin) = 2
    /\ stdin_iter = 2
    /\ TapeGet(tape, ptr) = stdin[2].code

----------------------------------------------------------------------------
(* The range of a cell under read-input.                                   *)

\* C16: in every state of run, whatever the input source supplies, every
\* cell of the tape holds a value of the range that increment and decrement
\* reduce into; a read-input leaves no cell outside it.
C16_EveryCellInRange ==
    (entry = "run_bf" /\ Running) =>
        \A i \in DOMAIN tape : tape[i] = to_u8(tape[i])

----------------------------------------------------------------------------
(* Which characters of the text one token stands for.                      *)

NonBracketSymbols == Symbols \ {"[", "]"}

\* The positions (from 1) of the text at which a token starts: a bracket,
\* or an instruction symbol that does not repeat the character before it.
UnitStarts(text) ==
    {k \in 1..Len(text) :
        \/ text[k] \in {"[", "]"}
        \/ text[k] \in NonBracketSymbols /\ (k = 1 \/ text[k - 1] # text[k])}

\* The i-th of them, in text order.
UnitAt(text, i) ==
    CHOOSE k \in UnitStarts(text) :
        Cardinality({m \in UnitStarts(text) : m < k}) = i - 1

\* The length of the stretch of characters equal to text[k] that starts at k.
StretchAt(text, k) ==
    CHOOSE n \in 1..(Len(text) - k + 1) :
        /\ \A j \in k..(k + n - 1) : text[j] = text[k]
        /\ k + n > Len(text) \/ text[k + n] # text[k]

SameNonBracketKind(i) ==
    /\ ~IsBracket(tokens[i].token)
    /\ tokens[i].token = tokens[i + 1].token

\* C17 as claimed: no two adjacent instructions of a returned sequence have
\* the same non-bracket kind, also when only ignored characters separate
\* the occurrences of the symbol.
C17_NoAdjacentSameKind ==
    ParseReturned => \A i \in 1..(Len(tokens) - 1) : ~SameNonBracketKind(i)

\* C17 as amended: the tokens returned are, in order, the brackets and the
\* maximal stretches of one repeated non-bracket symbol of the text; two
\* adjacent instructions have the same non-bracket kind only where a
\* non-instruction character separates their symbols in the text, and
\* instructions of different kinds are never merged.
C17_CollapsesAdjacentCharacters ==
    ParseReturned =>
        /\ Len(tokens) = Cardinality(UnitStarts(prog))
        /\ \A i \in 1..Len(tokens) :
             LET k == UnitAt(prog, i)
             IN  /\ tokens[i].token = BFTokenGet(prog[k])
                 /\ ~IsBracket(tokens[i].token) => tokens[i].value = StretchAt(prog, k)
        /\ \A i \in 1..(Len(tokens) - 1) :
             SameNonBracketKind(i) =>
                 \E j \in (UnitAt(prog, i) + tokens[i].value)..(UnitAt(prog, i + 1) - 1) :
                     prog[j] \notin Symbols

\* parse has returned for "++x+>": a collapsed pair, then the same symbol
\* again after an ignored character, then another kind.
C17_Witness ==
    /\ ParseReturned
    /\ prog = <<"+", "+", "x", "+", ">">>
    /\ tokens = <<CollapsedToken("Incr", 2), CollapsedToken("Incr", 1),
                  CollapsedToken("MoveRight", 1)>>

----------------------------------------------------------------------------
(* The bracket stack during the scan.                                      *)

\* C18: the raise of line 62 is never reached: throughout the scan the
\* bracket stack holds, in strictly increasing order, exactly the indices of
\* the JumpForward tokens whose value is still unset, so each index popped
\* on a closer is one of them; the stack is empty when parse starts and
\* whenever it returns.
C18_StackHoldsUnresolvedOpeners ==
    entry = "parse" =>
        /\ pc = "raised" => raised[1].site # "not_empty_jump_forward"
        /\ pc \in {"parse", "done"} =>
             /\ \A a, b \in 1..Len(bracket_stack) :
                  a < b => bracket_stack[a] < bracket_stack[b]
             /\ {bracket_stack[a] : a \in 1..Len(bracket_stack)} = UnresolvedOpeners
        /\ parse_loc = 0 => bracket_stack = <<>>
        /\ pc = "done" => bracket_stack = <<>>

\* In the middle of a scan the stack holds two openers, with a resolved pair
\* between them.
C18_Witness ==
    /\ entry = "parse"
    /\ pc = "parse"
    /\ parse_loc < Len(prog)
    /\ prog[parse_loc + 1] = "]"
    /\ bracket_stack = <<0, 3>>
    /\ Len(tokens) = 4
    /\ tokens[2].value = 2
    /\ tokens[3].value = 1

----------------------------------------------------------------------------
(* What one iteration of run leaves alone.                                 *)

\* C19: an iteration changes only what the kind of its instruction owns.
\* A move leaves the tape, the input cursor and the output alone; Incr and
\* Decr leave the data pointer, the input cursor and the output alone; a
\* read leaves the data pointer and the output alone; a write leaves the
\* data pointer, the tape and the input cursor alone; a jump leaves all four
\* alone. No iteration changes ops, the input text, or a cell other than the
\* one under the data pointer.
C19_StepChangesOnlyWhatItOwns ==
    [][(entry = "run_bf" /\ Iteration) =>
        LET kind == CurrentOp.token
        IN  /\ ops' = ops
            /\ stdin' = stdin
            /\ \A i \in (DOMAIN tape \cup DOMAIN tape') \ {ptr} :
                 TapeGet(tape', i) = TapeGet(tape, i)
            /\ kind \in {"MoveRight", "MoveLeft"} =>
                 tape' = tape /\ stdin_iter' = stdin_iter /\ stdout' = stdout
            /\ kind \in {"Incr", "Decr"} =>
                 ptr' = ptr /\ stdin_iter' = stdin_iter /\ stdout' = stdout
            /\ kind = "ReadStdIn" =>
                 ptr' = ptr /\ stdout' = stdout
            /\ kind = "PutStdOut" =>
                 ptr' = ptr /\ tape' = tape /\ stdin_iter' = stdin_iter
            /\ IsBracket(kind) =>
                 /\ ptr' = ptr /\ tape' = tape
                 /\ stdin_iter' = stdin_iter /\ stdout' = stdout
            /\ ~IsBracket(kind) => run_loc' = run_loc + 1
    ]_vars

\* A read has just stored a character in cell 1 and moved the input cursor,
\* with cell 0 still holding what an earlier Incr left there.
C19_Witness ==
    /\ entry = "run_bf"
    /\ Running
    /\ Len(hist) = 3
    /\ OpAt(1).token = "Incr"
    /\ OpAt(2).token = "MoveRight"
    /\ OpAt(3).token = "ReadStdIn"
    /\ ptr = 1
    /\ TapeGet(tape, 0) = 1
    /\ TapeGet(tape, 1) = 65
    /\ stdin_iter = 1
    /\ stdout = <<>>

----------------------------------------------------------------------------
(* The end of run.                                                         *)

JumpFree(s) == \A k \in 1..Len(s) : ~IsBracket(s[k].token)

NoBracketIn(text) == \A k \in 1..Len(text) : text[k] \notin {"[", "]"}

\* C20: run on a sequence without a jump performs exactly len(ops)
\* iterations, one per instruction in order, and then returns with
\* loc = len(ops), whatever the input; run returns only with loc = len(ops);
\* an iteration that does not move loc forward is a JumpBackward taken on a
\* non-zero cell. "+[]" never returns: from its second iteration on it
\* stands on the JumpBackward with the cell at 1, and taking it changes
\* nothing. "[]" returns after the one iteration of its JumpForward.
C20_JumpFreeRunTerminates ==
    /\ [](entry = "run_bf" /\ Running =>
            /\ pc = "done" => run_loc = Len(ops)
            /\ JumpFree(ops) =>
                 /\ run_loc = Len(hist)
                 /\ Len(hist) <= Len(ops)
                 /\ pc = "done" => Len(hist) = Len(ops)
            /\ prog = <<"+", "[", "]">> =>
                 /\ pc = "run"
                 /\ Len(hist) >= 2 =>
                      /\ run_loc = 2 /\ ptr = 0 /\ tape = TapeSet(ZeroTape, 0, 1)
                      /\ JumpBackward(run_loc, CurrentOp, TapeGet(tape, ptr)) + 1 = run_loc
            /\ prog = <<"[", "]">> /\ pc = "done" => Len(hist) = 1)
    /\ [][(entry = "run_bf" /\ Iteration /\ run_loc' <= run_loc) =>
            /\ CurrentOp.token = "JumpBackward"
            /\ TapeGet(tape, ptr) # 0
            /\ run_loc' = CurrentOp.value + 1]_vars
    /\ (entry = "run_bf" /\ NoBracketIn(prog)) ~> (pc = "done" /\ Len(hist) = Len(ops))
    /\ (entry = "run_bf" /\ prog = <<"[", "]">>) ~> (pc = "done")

\* run has returned from a sequence of three instructions without a jump,
\* after three iterations.
C20_Witness ==
    /\ entry = "run_bf"
    /\ pc = "done"
    /\ Len(ops) = 3
    /\ JumpFree(ops)
    /\ ops[1].token = "ReadStdIn"
    /\ ops[3].token = "MoveLeft"
    /\ Len(hist) = 3
    /\ run_loc = 3
    /\ stdin = <<Chr(65)>>

====
